---- MODULE Spec2Model ----
(***************************************************************************)
(* DNAMethylationAnalyzer (biolearn/DNAm_Age_Relationships.py).            *)
(*                                                                         *)
(* The analyzer owns two pandas tables, methylation_data and metadata.     *)
(* Every public method is one action.  Numbers are exact: a methylation    *)
(* level is an integer multiple of 1/Scale, so that every column mean the  *)
(* code can compute on a table of at most MaxRows rows is again an         *)
(* integer.  A missing cell (numpy NaN) is the value NaN, a missing probe  *)
(* identifier is NaNId.                                                    *)
(*                                                                         *)
(* Library results the source does not determine are choices.  The pandas  *)
(* release decides whether DataFrame.mean() skips the string column        *)
(* (numeric_only, before 2.0) or rejects it; it is fixed at construction.  *)
(* Whether pearsonr rejects NaN input is chosen at each call, and the      *)
(* p-value of a t-test on two samples of size >= 2 is any level.           *)
(***************************************************************************)
EXTENDS Integers, Sequences, FiniteSets

VARIABLES methylation_data, metadata, op, args, result, error, figures,
          p_values, preprocess_streak, numeric_only

vars == <<methylation_data, metadata, op, args, result, error, figures,
          p_values, preprocess_streak, numeric_only>>

\* ------------------------------------------------------------------ bounds
MaxRows == 2
MaxSites == 2
MaxStreak == 2

\* ------------------------------------------------------------- primitives
NaN == 0 - 1
NaNId == "NaN"
\* What the caller receives: None (also when the call raises), a list or a dict.
None == [type |-> "NoneType", value |-> <<>>]
List(seq) == [type |-> "list", value |-> seq]
Dict(f) == [type |-> "dict", value |-> f]
NoError == "none"

RECURSIVE Gcd(_, _)
Gcd(a, b) == IF b = 0 THEN a ELSE Gcd(b, a % b)

RECURSIVE LcmUpTo(_)
LcmUpTo(n) == IF n <= 1 THEN 1 ELSE LET l == LcmUpTo(n - 1) IN (l * n) \div Gcd(l, n)

Scale == LcmUpTo(MaxRows)

RECURSIVE Sum(_, _)
Sum(f, S) == IF S = {} THEN 0
             ELSE LET x == CHOOSE y \in S : TRUE IN f[x] + Sum(f, S \ {x})

RECURSIVE SumSq(_, _)
SumSq(f, S) == IF S = {} THEN 0
               ELSE LET x == CHOOSE y \in S : TRUE IN f[x] * f[x] + SumSq(f, S \ {x})

\* ---------------------------------------------------------------- fixtures
Probes == {"cg1", "cg2"}
AbsentProbe == "cg404"
ProbeArgs == Probes \cup {AbsentProbe}

MetadataPair ==
    << [SampleID |-> "s1", Age |-> 20, DiseaseState |-> "None"],
       [SampleID |-> "s2", Age |-> 40, DiseaseState |-> "COVID"] >>

MetadataGroups ==
    << [SampleID |-> "s1", Age |-> 20, DiseaseState |-> "None"],
       [SampleID |-> "s2", Age |-> 30, DiseaseState |-> "None"],
       [SampleID |-> "s3", Age |-> 40, DiseaseState |-> "COVID"],
       [SampleID |-> "s4", Age |-> 50, DiseaseState |-> "COVID"] >>

MetadataColumns == {"SampleID", "Age", "DiseaseState"}
Group1Values == {"None", "Flu"}
Group2Values == {"COVID", "Flu"}

StableThresholds == {1, (Scale * Scale) \div 2}
PValues == {0, 5, 10}
PThresholds == {5, 10}
SignificantArgs ==
    ({"DiseaseState"} \X Group1Values \X Group2Values \X PThresholds)
        \cup {<<"Batch", "None", "COVID", 5>>}

SampleIDs(meta) == {meta[i].SampleID : i \in 1..Len(meta)}

\* ------------------------------------------------------------ construction
CellsFor(meta) == IF meta = MetadataPair THEN {NaN, 0, Scale} ELSE {NaN, Scale}
IdsFor(meta) == IF meta = MetadataPair THEN Probes \cup {NaNId} ELSE Probes

RowsFor(meta) == [cpgSite : IdsFor(meta), vals : [SampleIDs(meta) -> CellsFor(meta)]]

\* Probe identifiers key the rows; only a trailing delimiter-only line of the
\* file gives a row without identifier, and that row has no data either.
UniqueIds(rows) ==
    /\ \A i, j \in 1..Len(rows) :
          (i # j /\ rows[i].cpgSite # NaNId) => rows[i].cpgSite # rows[j].cpgSite
    /\ \A i \in 1..Len(rows) :
          rows[i].cpgSite = NaNId =>
              (i = Len(rows) /\ \A c \in DOMAIN rows[i].vals : rows[i].vals[c] = NaN)

Init ==
    /\ metadata \in {MetadataPair, MetadataGroups}
    /\ \E n \in 0..MaxRows :
          \E rows \in [1..n -> RowsFor(metadata)] :
              /\ UniqueIds(rows)
              /\ methylation_data = [columns |-> SampleIDs(metadata), rows |-> rows]
    /\ op = "__init__"
    /\ args = <<>>
    /\ result = None
    /\ error = NoError
    /\ figures = <<>>
    /\ p_values = <<>>
    /\ preprocess_streak = 0
    /\ numeric_only \in BOOLEAN

\* --------------------------------------------------------- preprocess_data
Available(row, cols) == {c \in cols : row.vals[c] # NaN}

AllNa(row, cols) == row.cpgSite = NaNId /\ Available(row, cols) = {}

dropna(df) ==
    [df EXCEPT !.rows = SelectSeq(df.rows, LAMBDA r : ~AllNa(r, df.columns))]

ColumnValues(df, c) == {i \in 1..Len(df.rows) : df.rows[i].vals[c] # NaN}

mean(df) ==
    [c \in df.columns |->
        LET present == ColumnValues(df, c)
            column  == [i \in 1..Len(df.rows) |-> df.rows[i].vals[c]]
        IN  IF present = {} THEN NaN
            ELSE Sum(column, present) \div Cardinality(present)]

HasStringId(df) == \E i \in 1..Len(df.rows) : df.rows[i].cpgSite # NaNId

FillCell(df, value, i, c) ==
    IF df.rows[i].vals[c] = NaN THEN value[c] ELSE df.rows[i].vals[c]

\* Variant of fillna that stops after the first cell it fills.
fillna_first(df, value) ==
    LET fillable == {t \in (1..Len(df.rows)) \X df.columns :
                        df.rows[t[1]].vals[t[2]] = NaN /\ value[t[2]] # NaN}
    IN  IF fillable = {} THEN df
        ELSE LET t == CHOOSE u \in fillable : \A w \in fillable : u[1] <= w[1]
             IN  [df EXCEPT !.rows[t[1]].vals[t[2]] = value[t[2]]]

fillna(df, value) ==
    [df EXCEPT !.rows =
        [i \in 1..Len(df.rows) |->
            [df.rows[i] EXCEPT !.vals = [c \in df.columns |-> FillCell(df, value, i, c)]]]]

Bump(n) == IF n < MaxStreak THEN n + 1 ELSE n

preprocess_data ==
    LET dropped == dropna(methylation_data) IN
    /\ IF ~numeric_only /\ HasStringId(dropped)
       THEN \* DataFrame.mean() rejects the string column cpgSite
            /\ methylation_data' = dropped
            /\ error' = "TypeError"
       ELSE /\ methylation_data' = fillna(dropped, mean(dropped))
            /\ error' = NoError
    /\ preprocess_streak' = Bump(preprocess_streak)
    /\ op' = "preprocess_data"
    /\ args' = <<>>
    /\ result' = None
    /\ figures' = <<>>
    /\ p_values' = <<>>
    /\ UNCHANGED <<metadata, numeric_only>>

\* ------------------------------------------------ identify_stable_cpg_sites
\* DataFrame.var(axis=1): sample variance (ddof=1) over the available cells;
\* NaN when fewer than two cells are available.  The variance is the ratio
\* VarNum / VarDen, kept as a fraction of integers.
VarNum(row, cols) ==
    LET av == Available(row, cols)
    IN  Cardinality(av) * SumSq(row.vals, av) - Sum(row.vals, av) * Sum(row.vals, av)

VarDen(row, cols) ==
    LET n == Cardinality(Available(row, cols)) IN n * (n - 1)

VarIsNaN(row, cols) == Cardinality(Available(row, cols)) < 2

\* Variant of var_lt with <= in place of <.
var_lt_inclusive(row, cols, threshold) ==
    /\ ~VarIsNaN(row, cols)
    /\ VarNum(row, cols) <= threshold * VarDen(row, cols)

var_lt(row, cols, threshold) ==
    /\ ~VarIsNaN(row, cols)
    /\ VarNum(row, cols) < threshold * VarDen(row, cols)

CpgSites(rows) == [i \in 1..Len(rows) |-> rows[i].cpgSite]

\* Variant that stores the filtered frame back into methylation_data.
identify_stable_cpg_sites_filtering(threshold) ==
    LET df == methylation_data
        kept == SelectSeq(df.rows, LAMBDA r : var_lt(r, df.columns, threshold))
    IN  /\ result' = List(CpgSites(kept))
        /\ methylation_data' = [df EXCEPT !.rows = kept]
        /\ op' = "identify_stable_cpg_sites"
        /\ args' = <<threshold>>
        /\ error' = NoError
        /\ figures' = <<>>
        /\ p_values' = <<>>
        /\ preprocess_streak' = 0
        /\ UNCHANGED <<metadata, numeric_only>>

identify_stable_cpg_sites(threshold) ==
    LET df == methylation_data
        stable_cpg_sites == SelectSeq(df.rows, LAMBDA r : var_lt(r, df.columns, threshold))
    IN  /\ result' = List(CpgSites(stable_cpg_sites))
        /\ op' = "identify_stable_cpg_sites"
        /\ args' = <<threshold>>
        /\ error' = NoError
        /\ figures' = <<>>
        /\ p_values' = <<>>
        /\ preprocess_streak' = 0
        /\ UNCHANGED <<methylation_data, metadata, numeric_only>>

\* ------------------------------------------- identify_significant_cpg_sites
GroupSamples(meta, group_field, group) ==
    {meta[i].SampleID : i \in {j \in 1..Len(meta) : meta[j][group_field] = group}}

\* scipy.stats.ttest_ind(equal_var=False): NaN when either sample has fewer
\* than two values (the sample variance is undefined); otherwise some
\* p-value, or NaN when both variances vanish.
ttest_ind(n1, n2) == IF n1 < 2 \/ n2 < 2 THEN {NaN} ELSE PValues \cup {NaN}

\* One t-test per row of iterrows(), on the available values of each group.
RECURSIVE ttest_rows(_, _, _, _)
ttest_rows(rows, group1_samples, group2_samples, index) ==
    IF index > Len(rows) THEN {<<>>}
    ELSE LET group1_values == Available(rows[index], group1_samples)
             group2_values == Available(rows[index], group2_samples)
         IN  {<<p>> \o rest :
                 p \in ttest_ind(Cardinality(group1_values), Cardinality(group2_values)),
                 rest \in ttest_rows(rows, group1_samples, group2_samples, index + 1)}

\* Variant that compares the NaN value like a number.
p_below_signed(p_value, p_value_threshold) == p_value < p_value_threshold

\* p_value < p_value_threshold on floats: every comparison with NaN is False.
p_below(p_value, p_value_threshold) == p_value # NaN /\ p_value < p_value_threshold

RECURSIVE significant_loop(_, _, _, _)
significant_loop(rows, pv, p_value_threshold, index) ==
    IF index > Len(rows) THEN <<>>
    ELSE (IF p_below(pv[index], p_value_threshold)
          THEN <<rows[index].cpgSite>> ELSE <<>>)
         \o significant_loop(rows, pv, p_value_threshold, index + 1)

identify_significant_cpg_sites(group_field, group1, group2, p_value_threshold) ==
    LET df == methylation_data IN
    /\ op' = "identify_significant_cpg_sites"
    /\ args' = <<group_field, group1, group2, p_value_threshold>>
    /\ figures' = <<>>
    /\ preprocess_streak' = 0
    /\ UNCHANGED <<methylation_data, metadata, numeric_only>>
    /\ IF group_field \notin MetadataColumns
       THEN /\ error' = "KeyError"
            /\ result' = None
            /\ p_values' = <<>>
       ELSE LET group1_samples == GroupSamples(metadata, group_field, group1)
                group2_samples == GroupSamples(metadata, group_field, group2)
            IN  IF Len(df.rows) > 0 /\ ~((group1_samples \cup group2_samples) \subseteq df.columns)
                THEN /\ error' = "KeyError"
                     /\ result' = None
                     /\ p_values' = <<>>
                ELSE \E pv \in ttest_rows(df.rows, group1_samples, group2_samples, 1) :
                        /\ p_values' = pv
                        /\ result' = List(significant_loop(df.rows, pv, p_value_threshold, 1))
                        /\ error' = NoError

\* ----------------------------------------------------- plot_cpg_against_age
HasProbe(df, cpg_site) == \E i \in 1..Len(df.rows) : df.rows[i].cpgSite = cpg_site

\* set_index('cpgSite').loc[cpg_site]: the row labelled cpg_site.
loc(df, cpg_site) == df.rows[CHOOSE i \in 1..Len(df.rows) : df.rows[i].cpgSite = cpg_site]

\* pd.merge(..., left_on='index', right_on='SampleID'): inner join on the sample.
merge(df, meta) == df.columns \cap SampleIDs(meta)

AgeOf(meta) == [s \in SampleIDs(meta) |->
                  meta[CHOOSE i \in 1..Len(meta) : meta[i].SampleID = s].Age]

HasNaN(row, samples) == \E s \in samples : row.vals[s] = NaN

\* Variant that opens the first figure before the probe is looked up.
plot_cpg_against_age_eager(cpg_site) ==
    LET df == methylation_data IN
    /\ op' = "plot_cpg_against_age"
    /\ args' = <<cpg_site>>
    /\ result' = None
    /\ p_values' = <<>>
    /\ preprocess_streak' = 0
    /\ UNCHANGED <<methylation_data, metadata, numeric_only>>
    /\ IF ~HasProbe(df, cpg_site)
       THEN /\ error' = "KeyError"
            /\ figures' = <<"Linear Relationship">>
       ELSE /\ error' = NoError
            /\ figures' = <<"Linear Relationship", "Non-Linear Relationship">>

plot_cpg_against_age(cpg_site) ==
    LET df == methylation_data IN
    /\ op' = "plot_cpg_against_age"
    /\ args' = <<cpg_site>>
    /\ result' = None
    /\ p_values' = <<>>
    /\ preprocess_streak' = 0
    /\ UNCHANGED <<methylation_data, metadata, numeric_only>>
    /\ IF ~HasProbe(df, cpg_site)
       THEN /\ error' = "KeyError"
            /\ figures' = <<>>
       ELSE LET merged_data == merge(df, metadata)
                cpg_data == loc(df, cpg_site)
            IN  IF merged_data = {} \/ HasNaN(cpg_data, merged_data)
                THEN \* LinearRegression.fit rejects empty input and NaN targets
                     /\ error' = "ValueError"
                     /\ figures' = <<>>
                ELSE /\ error' = NoError
                     /\ figures' = <<"Linear Relationship", "Non-Linear Relationship">>

\* ------------------------------------------- visualize_correlation_with_age
\* scipy.stats.pearsonr, reduced to the sign of the coefficient: the sign of
\* n*Sum(xy) - Sum(x)*Sum(y); NaN when either input is constant.
Sign(x) == IF x > 0 THEN 1 ELSE IF x < 0 THEN 0 - 1 ELSE 0

Constant(f, S) == \A a, b \in S : f[a] = f[b]

pearsonr(ages, levels, samples) ==
    IF Constant(ages, samples) \/ Constant(levels, samples) THEN "nan"
    ELSE LET xy == [s \in samples |-> ages[s] * levels[s]]
         IN  Sign(Cardinality(samples) * Sum(xy, samples)
                  - Sum(ages, samples) * Sum(levels, samples))

Put(correlations, cpg_site, corr) ==
    [k \in (DOMAIN correlations) \cup {cpg_site} |->
        IF k = cpg_site THEN corr ELSE correlations[k]]

\* Variant that skips an absent probe and continues with the next one.
RECURSIVE correlation_loop_skipping(_, _, _, _, _, _, _)
correlation_loop_skipping(df, meta, cpg_sites, index, correlations, shown, nan_raises) ==
    IF index > Len(cpg_sites)
    THEN [error |-> NoError, result |-> Dict(correlations), figures |-> shown]
    ELSE LET cpg_site == cpg_sites[index] IN
         IF ~HasProbe(df, cpg_site)
         THEN correlation_loop_skipping(df, meta, cpg_sites, index + 1, correlations, shown, nan_raises)
         ELSE LET merged_data == merge(df, meta)
                  cpg_data == loc(df, cpg_site)
              IN  IF Cardinality(merged_data) < 2
                     \/ (nan_raises /\ HasNaN(cpg_data, merged_data))
                  THEN [error |-> "ValueError", result |-> None, figures |-> shown]
                  ELSE LET corr == IF HasNaN(cpg_data, merged_data) THEN "nan"
                                   ELSE pearsonr(AgeOf(meta), cpg_data.vals, merged_data)
                       IN  correlation_loop_skipping(df, meta, cpg_sites, index + 1,
                                            Put(correlations, cpg_site, corr),
                                            Append(shown, cpg_site), nan_raises)

RECURSIVE correlation_loop(_, _, _, _, _, _, _)
correlation_loop(df, meta, cpg_sites, index, correlations, shown, nan_raises) ==
    IF index > Len(cpg_sites)
    THEN [error |-> NoError, result |-> Dict(correlations), figures |-> shown]
    ELSE LET cpg_site == cpg_sites[index] IN
         IF ~HasProbe(df, cpg_site)
         THEN [error |-> "KeyError", result |-> None, figures |-> shown]
         ELSE LET merged_data == merge(df, meta)
                  cpg_data == loc(df, cpg_site)
              IN  IF Cardinality(merged_data) < 2
                     \/ (nan_raises /\ HasNaN(cpg_data, merged_data))
                  THEN \* pearsonr needs two points; some releases reject NaN input
                       [error |-> "ValueError", result |-> None, figures |-> shown]
                  ELSE LET corr == IF HasNaN(cpg_data, merged_data) THEN "nan"
                                   ELSE pearsonr(AgeOf(meta), cpg_data.vals, merged_data)
                       IN  correlation_loop(df, meta, cpg_sites, index + 1,
                                            Put(correlations, cpg_site, corr),
                                            Append(shown, cpg_site), nan_raises)

visualize_correlation_with_age(cpg_sites) ==
    \E outcome \in {correlation_loop(methylation_data, metadata, cpg_sites, 1,
                                     <<>>, <<>>, nan_raises) : nan_raises \in BOOLEAN} :
        /\ op' = "visualize_correlation_with_age"
        /\ args' = <<cpg_sites>>
        /\ result' = outcome.result
        /\ error' = outcome.error
        /\ figures' = outcome.figures
        /\ p_values' = <<>>
        /\ preprocess_streak' = 0
        /\ UNCHANGED <<methylation_data, metadata, numeric_only>>

SiteLists == UNION {[1..n -> ProbeArgs] : n \in 0..MaxSites}

Next ==
    \/ preprocess_data
    \/ \E threshold \in StableThresholds : identify_stable_cpg_sites(threshold)
    \/ \E a \in SignificantArgs : identify_significant_cpg_sites(a[1], a[2], a[3], a[4])
    \/ \E cpg_site \in ProbeArgs : plot_cpg_against_age(cpg_site)
    \/ \E cpg_sites \in SiteLists : visualize_correlation_with_age(cpg_sites)

Spec == Init /\ [][Next]_vars

\* ================================================================ properties
Range(seq) == {seq[i] : i \in 1..Len(seq)}

NoMissing(df) ==
    \A i \in 1..Len(df.rows) : \A c \in df.columns : df.rows[i].vals[c] # NaN

HasData(row, cols) == \E c \in cols : row.vals[c] # NaN

\* C1: after preprocess_data returns no retained row contains a missing value,
\* and no later call brings a missing value back.
C1_NoMissingAfterPreprocess ==
    /\ []((op = "preprocess_data" /\ error = NoError) => NoMissing(methylation_data))
    /\ [][NoMissing(methylation_data) => NoMissing(methylation_data')]_vars

\* C2: preprocess_data replaces each missing cell of a retained row that has
\* data by the mean of that row's own non-missing values (cell * count = sum)
\* and leaves every non-missing cell unchanged.
C2_RowMeanImputation ==
    [][(op' = "preprocess_data" /\ error' = NoError) =>
          LET cols == methylation_data.columns
              pre  == SelectSeq(methylation_data.rows,
                                LAMBDA r : r.cpgSite # NaNId \/ HasData(r, cols))
              post == methylation_data'.rows
          IN  /\ Len(post) = Len(pre)
              /\ \A i \in 1..Len(pre) : \A c \in cols :
                    LET av == {d \in cols : pre[i].vals[d] # NaN}
                    IN  av # {} =>
                          IF pre[i].vals[c] = NaN
                          THEN post[i].vals[c] * Cardinality(av) = Sum(pre[i].vals, av)
                          ELSE post[i].vals[c] = pre[i].vals[c]]_vars

\* C3: preprocess_data removes exactly the rows whose every sample cell is
\* missing (identifier present or not) and keeps the others in their order.
C3_DropsRowsWithoutData ==
    [][op' = "preprocess_data" =>
          LET kept == SelectSeq(methylation_data.rows,
                                LAMBDA r : HasData(r, methylation_data.columns))
          IN  CpgSites(methylation_data'.rows) = CpgSites(kept)]_vars

\* C4: preprocess_data is idempotent: a call that directly follows another
\* call of preprocess_data leaves the stored matrix as it is.
C4_Idempotent ==
    [][(op = "preprocess_data" /\ op' = "preprocess_data") =>
          methylation_data' = methylation_data]_vars

C4_Witness ==
    /\ op = "preprocess_data"
    /\ error = NoError
    /\ preprocess_streak >= 2
    /\ Len(methylation_data.rows) >= 2

\* C5: only preprocess_data changes methylation_data, whether the other
\* operations return or fail, and no operation changes metadata.
C5_OnlyPreprocessMutates ==
    [][/\ (op' # "preprocess_data" => methylation_data' = methylation_data)
       /\ metadata' = metadata]_vars

C5_Witness ==
    /\ op = "visualize_correlation_with_age"
    /\ error # NoError
    /\ Len(methylation_data.rows) >= 1
    /\ ~NoMissing(methylation_data)

\* C6: identify_stable_cpg_sites returns, in row order, exactly the probes
\* with at least two available values whose variance (the sum of squared
\* pairwise differences over n(n-1), counted over ordered pairs, hence the
\* factor 2) is strictly below the threshold.
PairwiseSq(row, av) ==
    Sum([t \in av \X av |-> (row.vals[t[1]] - row.vals[t[2]]) * (row.vals[t[1]] - row.vals[t[2]])],
        av \X av)

StrictlyStable(row, cols, threshold) ==
    LET av == {c \in cols : row.vals[c] # NaN}
        n  == Cardinality(av)
    IN  n >= 2 /\ PairwiseSq(row, av) < 2 * threshold * n * (n - 1)

C6_StableSites ==
    op = "identify_stable_cpg_sites" =>
        LET df == methylation_data IN
        /\ error = NoError
        /\ result = List(CpgSites(SelectSeq(df.rows,
                            LAMBDA r : StrictlyStable(r, df.columns, args[1]))))
        /\ \A i \in 1..Len(df.rows) :
              LET r  == df.rows[i]
                  av == {c \in df.columns : r.vals[c] # NaN}
              IN  /\ Cardinality(av) < 2 => r.cpgSite \notin Range(result.value)
                  /\ (Cardinality(av) >= 2 /\ \A a, b \in av : r.vals[a] = r.vals[b])
                        => r.cpgSite \in Range(result.value)

C6_Witness ==
    /\ op = "identify_stable_cpg_sites"
    /\ \E i, j \in 1..Len(methylation_data.rows) :
          LET r == methylation_data.rows[i]
              q == methylation_data.rows[j]
              cols == methylation_data.columns
          IN  /\ NoMissing([columns |-> cols, rows |-> <<r, q>>])
              /\ VarNum(r, cols) = args[1] * VarDen(r, cols)
              /\ r.cpgSite \notin Range(result.value)
              /\ \A a, b \in cols : q.vals[a] = q.vals[b]
              /\ q.cpgSite \in Range(result.value)

\* C7: identify_significant_cpg_sites with a group value that matches no
\* metadata row fails with GroupNotFoundError.
C7_GroupNotFound ==
    (/\ op = "identify_significant_cpg_sites"
     /\ args[1] \in MetadataColumns
     /\ \/ GroupSamples(metadata, args[1], args[2]) = {}
        \/ GroupSamples(metadata, args[1], args[3]) = {})
    => error = "GroupNotFoundError"

SmallGroup(row, meta, a) ==
    \/ Cardinality({s \in GroupSamples(meta, a[1], a[2]) : row.vals[s] # NaN}) < 2
    \/ Cardinality({s \in GroupSamples(meta, a[1], a[3]) : row.vals[s] # NaN}) < 2

Reported(pv, threshold) == {i \in DOMAIN pv : pv[i] # NaN /\ pv[i] < threshold}

InRowOrder(rows, picked) ==
    [k \in 1..Cardinality(picked) |->
        rows[CHOOSE i \in picked : Cardinality({j \in picked : j < i}) = k - 1].cpgSite]

C9_SignificantSites ==
    (op = "identify_significant_cpg_sites" /\ args[1] \in MetadataColumns) =>
        LET rows == methylation_data.rows IN
        /\ error = NoError
        /\ Len(p_values) = Len(rows)
        /\ \A i \in 1..Len(rows) :
              SmallGroup(rows[i], metadata, args) =>
                  (p_values[i] = NaN /\ i \notin Reported(p_values, args[4]))
        /\ result = List(InRowOrder(rows, Reported(p_values, args[4])))
        /\ \A i \in 1..Len(rows) :
              (rows[i].cpgSite \in Range(result.value)) <=> (i \in Reported(p_values, args[4]))

C9_Witness ==
    /\ op = "identify_significant_cpg_sites"
    /\ error = NoError
    /\ Len(methylation_data.rows) = 2
    /\ SmallGroup(methylation_data.rows[1], metadata, args)
    /\ p_values[1] = NaN
    /\ p_values[2] # NaN
    /\ p_values[2] < args[4]
    /\ result = List(<<methylation_data.rows[2].cpgSite>>)

FirstAbsent(df, cpg_sites) ==
    CHOOSE k \in 1..Len(cpg_sites) :
        /\ ~HasProbe(df, cpg_sites[k])
        /\ \A j \in 1..(k - 1) : HasProbe(df, cpg_sites[j])

SomeAbsent(df, cpg_sites) == \E k \in 1..Len(cpg_sites) : ~HasProbe(df, cpg_sites[k])

ReturnsAfterAllCharts ==
    error = NoError =>
        /\ figures = args[1]
        /\ result.type = "dict"
        /\ DOMAIN result.value = Range(args[1])

====
